---------------------------- MODULE Spec2Model ----------------------------
(***************************************************************************)
(* Match-3 / Connect-4 rule engine: the Board (src/src/board.rs) and the   *)
(* BoardState game state built on it (src/m3c4/src/lib.rs).                *)
(*                                                                         *)
(* A Cell is "Empty" or the name of the player filling it.  A Coordinate   *)
(* is a pair <<x, y>>.  The board is indexed board[x][y], column first, as *)
(* the array [[Cell; HEIGHT]; WIDTH] of the source.                        *)
(***************************************************************************)
EXTENDS Integers, Sequences, FiniteSets, TLC

VARIABLES
    board,            \* BoardState.board / Board.board
    player_1_points,  \* BoardState.player_1_points
    player_2_points,  \* BoardState.player_2_points
    current_player,   \* BoardState.current_player
    winner,           \* BoardState.winner (cached TerminalResult)
    mov,              \* the action of the last make_move call, NoMove before any
    results,          \* the Vec<MoveResult> the last Board.make_move returned
    passes,           \* one record per pass of the last call's resolution loop
    pre,              \* the game state the last call started from
    ply,              \* number of make_move calls so far (rollouts do not count)
    panicked,         \* the action whose call of Board.make_move panicked, or NoMove
    root_moves,       \* alphazero.rs: the moves of the search root
    visits,           \* alphazero.rs: visits[i] is root_moves[i].visits()
    policy,           \* alphazero.rs: what moves_to_tensorflow made of them
    evaluation,       \* alphazero.rs: what moves_to_evaluation read back
    phase,            \* learn.rs: where main is in its episode
    episode,          \* learn.rs: the episode of main
    histories,        \* learn.rs: the histories of play_a_game
    game_result,      \* learn.rs: the GameResult play_a_game returned
    data,             \* learn.rs: the TrainingData of the episode
    learn_results,    \* learn.rs: what the calls of learn returned in the episode
    save_result,      \* learn.rs: what data.save returned in the episode
    workers,          \* learn.rs: the self-play workers of the episode
    offset_call       \* action.rs: the last call of Coordinate::offset

\* the variables of the search root
rootVars == <<root_moves, visits, policy, evaluation>>

\* the variables of the game
gameVars == <<board, player_1_points, player_2_points, current_player, winner,
              mov, results, passes, pre, ply, panicked>>

\* the variables of the training run
learnVars == <<phase, episode, histories, game_result, data, learn_results,
               save_result, workers>>

vars == <<gameVars, rootVars, learnVars, offset_call>>

-----------------------------------------------------------------------------
(* Constants of the program *)

WIDTH == 8
HEIGHT == 8

(* Bounds of the model *)

\* game specification: plies played from the default state
MaxPly == 9
\* game specification: stones are dropped only in columns 0..LowCols-1 and in
\* the last column (available_moves itself is always computed in full)
LowCols == 2
\* board specification: longest run of the generated boards
MaxRun == 5
\* board specification: calls of Board::make_move on one board
MaxCalls == 1

-----------------------------------------------------------------------------
(* player.rs *)

Player1 == "Player1"
Player2 == "Player2"
Players == {Player1, Player2}

next_player(p) == IF p = Player1 THEN Player2 ELSE Player1

-----------------------------------------------------------------------------
(* action.rs, board.rs: data *)

Empty == "Empty"
Filled(p) == p

TNone == <<"None">>
TWin(p) == <<"Win", p>>
TDraw == <<"Draw">>

Winner(p) == <<"Winner", p>>
Draw == <<"Draw">>
Three(p) == <<"Three", p>>

DropStone(p, col) == <<"DropStone", p, col>>
SwitchStone(a, b) == <<"SwitchStone", a, b>>
NoMove == <<"NoMove">>

Xs == 0 .. (WIDTH - 1)
Ys == 0 .. (HEIGHT - 1)
Coords == Xs \X Ys

is_contained(c, a, b) ==
    /\ a[1] <= c[1] /\ c[1] < b[1]
    /\ a[2] <= c[2] /\ c[2] < b[2]

CoordAdd(c, d) == <<c[1] + d[1], c[2] + d[2]>>
CoordSub(c, d) == <<c[1] - d[1], c[2] - d[2]>>

DefaultBoard == [x \in Xs |-> [y \in Ys |-> Empty]]

set(b, cell, coord) == [b EXCEPT ![coord[1]][coord[2]] = cell]

get(b, coord) ==
    IF is_contained(coord, <<0, 0>>, <<WIDTH, HEIGHT>>)
    THEN b[coord[1]][coord[2]]
    ELSE Empty

is_col_free(b, col) == b[col][HEIGHT - 1] = Empty

-----------------------------------------------------------------------------
(* board.rs: line detection *)

\* the element of a set of one element; {F(v) : v \in {e}} computes e once
\* and F on its value
Only(S) == CHOOSE v \in S : TRUE

RECURSIVE directional_stone_len(_, _, _, _)
directional_stone_len(b, player, coord, direction) ==
    IF get(b, coord) = Filled(player)
    THEN <<coord>> \o directional_stone_len(b, player, CoordAdd(coord, direction), direction)
    ELSE <<>>

\* mutant of is_four_directional: a forward run of four or more counts
is_four_directional_at_least(b, start, offset) ==
    IF get(b, start) \in Players
    THEN LET player == get(b, start)
             forward == Len(directional_stone_len(b, player, start, offset))
             backward == Len(directional_stone_len(b, player, CoordSub(start, offset),
                                                   <<-offset[1], -offset[2]>>))
         IN IF forward >= 4 /\ backward = 0 THEN player ELSE "None"
    ELSE "None"

\* Some(player) is the player, None is "None"
is_four_directional(b, start, offset) ==
    IF get(b, start) \in Players
    THEN LET player == get(b, start)
             forward == Len(directional_stone_len(b, player, start, offset))
             backward == Len(directional_stone_len(b, player, CoordSub(start, offset),
                                                   <<-offset[1], -offset[2]>>))
         IN IF forward = 4 /\ backward = 0 THEN player ELSE "None"
    ELSE "None"

FourOffsets == {<<1, 0>>, <<0, 1>>, <<1, 1>>, <<-1, 1>>}

\* player_1_four / player_2_four of get_board_terminal_status
player_four(b, p) ==
    Cardinality({s \in Coords \X FourOffsets : is_four_directional(b, s[1], s[2]) = p})

\* mutant of terminal_of: Player1's count is tested first
terminal_of_p1_first(player_1_four, player_2_four) ==
    IF player_1_four > 0 THEN TWin(Player1)
    ELSE IF player_2_four > 0 THEN TWin(Player2)
    ELSE TNone

terminal_of(player_1_four, player_2_four) ==
    IF player_1_four > 0 /\ player_2_four > 0 THEN TDraw
    ELSE IF player_1_four = 0 /\ player_2_four = 0 THEN TNone
    ELSE IF player_1_four > 0 /\ player_2_four = 0 THEN TWin(Player1)
    ELSE TWin(Player2)

get_board_terminal_status(b) ==
    terminal_of(player_four(b, Player1), player_four(b, Player2))

-----------------------------------------------------------------------------
(* board.rs: find_points *)

\* the directions of up_set, up_right_set, right_set, down_right_set, in the
\* order check_direction is called for one cell
PointDirections == <<(<<0, 1>>), (<<1, 1>>), (<<1, 0>>), (<<1, -1>>)>>

SeqRange(s) == {s[i] : i \in 1 .. Len(s)}

\* does a run found from one cell score a point
\* mutant of scores: a run of three is not scored
scores_over_three(len) == len > 3 /\ len # 4

\* mutant of scores: a run of two is scored too
scores_from_two(len) == len >= 2 /\ len # 4

scores(len) == len >= 3 /\ len # 4

\* the body of check_direction for the cells found: acc = [points, coords,
\* sets], sets[k] is the already-counted set of direction k
count_cells(acc, k, cells) ==
    IF scores(Len(cells))
    THEN [points |-> acc.points + 1,
          coords |-> acc.coords \cup SeqRange(cells),
          sets   |-> [acc.sets EXCEPT ![k] = @ \cup SeqRange(cells)]]
    ELSE acc

check_direction(b, player, acc, coord, k) ==
    IF coord \notin acc.sets[k]
    THEN count_cells(acc, k, directional_stone_len(b, player, coord, PointDirections[k]))
    ELSE acc

\* the four calls of check_direction for one cell, each on the accumulator
\* the call before has left
check_cell(b, player, acc, coord) ==
    Only({check_direction(b, player, a3, coord, 4) :
             a3 \in {check_direction(b, player, a2, coord, 3) :
                        a2 \in {check_direction(b, player, a1, coord, 2) :
                                   a1 \in {check_direction(b, player, acc, coord, 1)}}}})

\* for x in 0..WIDTH, from cell (x, y) on, acc being the state before that cell
RECURSIVE scan_row(_, _, _, _, _)
scan_row(b, player, y, x, acc) ==
    IF x = WIDTH
    THEN acc
    ELSE Only({scan_row(b, player, y, x + 1, a) : a \in {check_cell(b, player, acc, <<x, y>>)}})

\* for y in 0..HEIGHT
RECURSIVE scan_rows(_, _, _, _)
scan_rows(b, player, y, acc) ==
    IF y = HEIGHT
    THEN acc
    ELSE Only({scan_rows(b, player, y + 1, a) : a \in {scan_row(b, player, y, 0, acc)}})

\* (points, coords) as a record
points_and_coords(acc) == [points |-> acc.points, coords |-> acc.coords]

find_points(b, player) ==
    points_and_coords(scan_rows(b, player, 0,
        [points |-> 0, coords |-> {}, sets |-> <<{}, {}, {}, {}>>]))

-----------------------------------------------------------------------------
(* board.rs: removal *)

RECURSIVE shift_down(_, _)
shift_down(b, coord) ==
    IF is_contained(coord, <<0, 0>>, <<WIDTH, HEIGHT>>)
    THEN Only({shift_down(b1, c1) :
                  b1 \in {set(b, get(b, CoordAdd(coord, <<0, 1>>)), coord)},
                  c1 \in {CoordAdd(coord, <<0, 1>>)}})
    ELSE b

\* mutant of remove_stone: the cell is emptied and nothing comes down
remove_stone_in_place(b, coord) == set(b, Empty, coord)

remove_stone(b, coord) == Only({shift_down(b1, coord) : b1 \in {set(b, Empty, coord)}})

\* mutant of key_le: rows ascending
key_le_ascending(c, d) == c[2] < d[2] \/ (c[2] = d[2] /\ c[1] <= d[1])

\* the order of sort_by_key(|&c| (Reverse(c.y()), c.x()))
key_le(c, d) == c[2] > d[2] \/ (c[2] = d[2] /\ c[1] <= d[1])

RECURSIVE sort_by_key(_)
sort_by_key(S) ==
    IF S = {}
    THEN <<>>
    ELSE LET c == CHOOSE c \in S : \A d \in S : key_le(c, d)
         IN <<c>> \o sort_by_key(S \ {c})

\* for coord in total, from the i-th on
RECURSIVE remove_stones(_, _, _)
remove_stones(b, total, i) ==
    IF i > Len(total)
    THEN b
    ELSE Only({remove_stones(b1, total, i + 1) : b1 \in {remove_stone(b, total[i])}})

-----------------------------------------------------------------------------
(* board.rs: Board::make_move *)

\* mutant of drop_asserts: the assertion never fails
drop_asserts_nothing(b, col) == TRUE

\* assert!(self.board[*col][HEIGHT - 1] == Cell::Empty)
drop_asserts(b, col) == is_col_free(b, col)

\* the loop over y: the first Empty cell from the bottom is filled, none if
\* the column has no Empty cell
\* mutant of drop_stone: the stone is put on the top cell of the column
drop_stone_on_top(b, player, col) == [b EXCEPT ![col][HEIGHT - 1] = Filled(player)]

drop_stone(b, player, col) ==
    IF \E y \in Ys : b[col][y] = Empty
    THEN LET y == CHOOSE y \in Ys : b[col][y] = Empty /\ \A z \in 0 .. (y - 1) : b[col][z] # Empty
         IN [b EXCEPT ![col][y] = Filled(player)]
    ELSE b

\* mutant of switch_stone: the stone of a is copied to c, a keeps its stone
switch_stone_copy(b, a, c) == set(b, get(b, a), c)

switch_stone(b, a, c) ==
    LET stone_a == get(b, a)
        stone_b == get(b, c)
    IN set(set(b, stone_a, c), stone_b, a)

apply_action(b, m) ==
    IF m[1] = "DropStone" THEN drop_stone(b, m[2], m[3]) ELSE switch_stone(b, m[2], m[3])

Repeat(e, n) == [i \in 1 .. n |-> e]

terminal_event(status) == IF status = TDraw THEN Draw ELSE Winner(status[2])

\* the pass that finds the board terminal: the event is pushed and the call returns
terminal_pass(b, status) ==
    [start |-> b, status |-> status, p1 |-> 0, p2 |-> 0, total |-> <<>>,
     events |-> <<terminal_event(status)>>, after |-> b, again |-> FALSE]

\* mutant of loop_again: only Player1's count is looked at
loop_again_p1_only(p1, p2) == ~(p1 = 0)

\* the loop goes on unless p1 == 0 && p2 == 0
loop_again(p1, p2) == ~(p1 = 0 /\ p2 = 0)

\* mutant of pass_events: the events of Player2 are pushed first
pass_events_p2_first(p1, p2) == Repeat(Three(Player2), p2) \o Repeat(Three(Player1), p1)

\* the two push loops of a pass: p1 times Three(Player1), then p2 times Three(Player2)
pass_events(p1, p2) == Repeat(Three(Player1), p1) \o Repeat(Three(Player2), p2)

\* the pass that scores, given what find_points returned and the sorted cells
scored_pass(b, status, f1, f2, total) ==
    [start |-> b, status |-> status, p1 |-> f1.points, p2 |-> f2.points,
     total |-> total,
     events |-> pass_events(f1.points, f2.points),
     after |-> remove_stones(b, total, 1),
     again |-> loop_again(f1.points, f2.points)]

scored_points(b, status, f1, f2) ==
    Only({scored_pass(b, status, f1, f2, total) :
             total \in {sort_by_key(f1.coords \cup f2.coords)}})

\* the pass that scores: the Three events, then the removal of the scored cells
scoring_pass(b, status) ==
    Only({scored_points(b, status, f1, f2) :
             f1 \in {find_points(b, Player1)}, f2 \in {find_points(b, Player2)}})

\* mutant of pass_for: the terminal event is pushed without returning
pass_for_no_return(b, status, scoring) ==
    IF status # TNone
    THEN [scoring EXCEPT !.events = <<terminal_event(status)>> \o @]
    ELSE scoring

\* the pass for the status found; scoring is the pass that scores
pass_for(b, status, scoring) ==
    IF status # TNone THEN terminal_pass(b, status) ELSE scoring

\* one pass of the loop from board b: what it finds, what it appends, what it
\* leaves, and whether the loop goes on
loop_pass(b) ==
    pass_for(b, get_board_terminal_status(b), scoring_pass(b, get_board_terminal_status(b)))

RECURSIVE resolution_loop(_, _, _)

\* the loop after one pass: return, or go on from what the pass left
after_pass(pass, res, ps) ==
    IF pass.again
    THEN resolution_loop(pass.after, res \o pass.events, Append(ps, pass))
    ELSE [board |-> pass.after, results |-> res \o pass.events, passes |-> Append(ps, pass)]

resolution_loop(b, res, ps) == Only({after_pass(pass, res, ps) : pass \in {loop_pass(b)}})

\* the board after the call, the returned events and the trace of its passes
Board_make_move(b, m) ==
    Only({resolution_loop(b1, <<>>, <<>>) : b1 \in {apply_action(b, m)}})

-----------------------------------------------------------------------------
(* lib.rs: BoardState *)

\* a BoardState as a record of its fields
DefaultState ==
    [board |-> DefaultBoard, player_1_points |-> 0, player_2_points |-> 0,
     current_player |-> Player1, winner |-> TNone]

\* mutant of find_switch_actions: switches are looked for whatever the points
find_switch_actions_always(st) == TRUE

find_switch_actions(st) ==
    IF st.current_player = Player1 THEN st.player_1_points > 0 ELSE st.player_2_points > 0

\* mutant of add_action: any two different cells
add_action_any_different(next_cell, base_cell) == next_cell # base_cell

\* the match on (next_cell, base cell)
add_action(next_cell, base_cell) ==
    next_cell \in Players /\ base_cell \in Players /\ next_cell # base_cell

drop_actions(st) ==
    LET cols == SelectSeq([i \in 1 .. WIDTH |-> i - 1], LAMBDA col : is_col_free(st.board, col))
    IN [i \in 1 .. Len(cols) |-> DropStone(st.current_player, cols[i])]

\* one of the two switch loops: for x in 0..columns, for y in 0..HEIGHT
switch_actions(b, columns, offset) ==
    LET candidates == [k \in 1 .. (columns * HEIGHT) |->
                          LET base_coord == <<(k - 1) \div HEIGHT, (k - 1) % HEIGHT>>
                          IN SwitchStone(base_coord, CoordAdd(base_coord, offset))]
    IN SelectSeq(candidates, LAMBDA m : add_action(get(b, m[3]), get(b, m[2])))

horizontal_switch_columns == WIDTH - 1
vertical_switch_columns == WIDTH - 1

\* mutant of available_moves: the terminal status of the board is not looked at
available_moves_unchecked(st) ==
    drop_actions(st) \o
    (IF find_switch_actions(st)
     THEN switch_actions(st.board, horizontal_switch_columns, <<1, 0>>) \o
          switch_actions(st.board, vertical_switch_columns, <<0, 1>>)
     ELSE <<>>)

available_moves(st) ==
    IF get_board_terminal_status(st.board) # TNone
    THEN <<>>
    ELSE drop_actions(st) \o
         (IF find_switch_actions(st)
          THEN switch_actions(st.board, horizontal_switch_columns, <<1, 0>>) \o
               switch_actions(st.board, vertical_switch_columns, <<0, 1>>)
          ELSE <<>>)

\* Some(player) is the player, None is "None"
get_winner(st) ==
    IF st.winner = TNone
    THEN IF get_board_terminal_status(st.board)[1] = "Win"
         THEN get_board_terminal_status(st.board)[2]
         ELSE "None"
    ELSE IF st.winner[1] = "Win" THEN st.winner[2] ELSE "None"

is_terminal(st) == available_moves(st) = <<>>

Count(s, e) == Cardinality({i \in 1 .. Len(s) : s[i] = e})

\* mutant of switch_cost: a SwitchStone is charged to both players
switch_cost_both(m, cp, p) == IF m[1] = "SwitchStone" THEN 1 ELSE 0

\* the cost of a SwitchStone for player p when the mover is cp; a counter at 0
\* goes to -1, which stands for the underflow of the usize counter
switch_cost(m, cp, p) == IF m[1] = "SwitchStone" /\ cp = p THEN 1 ELSE 0

\* mutant of winner_of: a final Draw is cached as None
winner_of_draw_as_none(res) ==
    IF Len(res) = 0 THEN TNone
    ELSE IF res[Len(res)][1] = "Winner" THEN TWin(res[Len(res)][2])
    ELSE TNone

winner_of(res) ==
    IF Len(res) = 0 THEN TNone
    ELSE IF res[Len(res)] = Draw THEN TDraw
    ELSE IF res[Len(res)][1] = "Winner" THEN TWin(res[Len(res)][2])
    ELSE TNone

\* the state after the call, r being what Board::make_move returned
state_after(st, m, r) ==
    [state |->
       [board |-> r.board,
        player_1_points |-> st.player_1_points - switch_cost(m, st.current_player, Player1)
                              + Count(r.results, Three(Player1)),
        player_2_points |-> st.player_2_points - switch_cost(m, st.current_player, Player2)
                              + Count(r.results, Three(Player2)),
        current_player |-> next_player(st.current_player),
        winner |-> winner_of(r.results)],
     results |-> r.results,
     passes |-> r.passes]

\* the state after the call, with the board's events and passes
BoardState_make_move(st, m) ==
    Only({state_after(st, m, r) : r \in {Board_make_move(st.board, m)}})

-----------------------------------------------------------------------------
(* lib.rs: impl Into<Tensor<u8>> for BoardState *)

\* usize as u8
as_u8(n) == n % 256

\* 1 where the cell is Filled(p), else 0
stone_plane(b, p) == [x \in Xs |-> [y \in Ys |-> IF get(b, <<x, y>>) = Filled(p) THEN 1 ELSE 0]]

\* vec![vec![v; 8]; 8]
real_plane(v) == [x \in Xs |-> [y \in Ys |-> v]]

\* the four planes: cross_plane, circle_plane, real_p1_plane, real_p2_plane
BoardState_into(st) ==
    <<stone_plane(st.board, st.current_player),
      stone_plane(st.board, next_player(st.current_player)),
      real_plane(as_u8(st.player_1_points)),
      real_plane(as_u8(st.player_2_points))>>

-----------------------------------------------------------------------------
(* alphazero.rs: the policy tensor of the moves of a search root.  An f32 is
   kept exact, as a fraction <<numerator, denominator>> in lowest terms: the
   rounding of the quotient is not modelled. *)

RECURSIVE gcd(_, _)
gcd(a, b) == IF b = 0 THEN a ELSE gcd(b, a % b)

NaN == <<"NaN">>

\* a / b of two counts as f32; 0.0 / 0.0 is NaN
f32_div(a, b) == IF b = 0 THEN NaN ELSE <<a \div gcd(a, b), b \div gcd(a, b)>>

f32_zero == <<0, 1>>

f32_add(p, q) ==
    IF p = NaN \/ q = NaN THEN NaN
    ELSE f32_div(p[1] * q[2] + q[1] * p[2], p[2] * q[2])

\* the indices of a tensor of shape [1, 3, 8, 8]
PolicyIndex == {0} \X (0 .. 2) \X Xs \X Ys

\* Tensor::new(&[1, 3, 8, 8]): all zero
Tensor_new == [ix \in PolicyIndex |-> f32_zero]

Unreachable == <<"unreachable">>

min(a, b) == IF a <= b THEN a ELSE b

\* mutant of indeces: the two kinds of switch share plane 1
indeces_one_switch_plane(m) ==
    IF m[1] = "DropStone" THEN <<0, 0, m[3], 0>>
    ELSE IF m[2][1] = m[3][1] THEN <<0, 1, m[2][1], min(m[2][2], m[3][2])>>
    ELSE IF m[2][2] = m[3][2] THEN <<0, 1, min(m[2][1], m[3][1]), m[2][2]>>
    ELSE Unreachable

\* the match on the move, the same in moves_to_tensorflow and
\* moves_to_evaluation; Unreachable is the arm unreachable!()
indeces(m) ==
    IF m[1] = "DropStone" THEN <<0, 0, m[3], 0>>
    ELSE IF m[2][1] = m[3][1] THEN <<0, 1, m[2][1], min(m[2][2], m[3][2])>>
    ELSE IF m[2][2] = m[3][2] THEN <<0, 2, min(m[2][1], m[3][1]), m[2][2]>>
    ELSE Unreachable

RECURSIVE sum(_, _)
sum(vis, i) == IF i > Len(vis) THEN 0 ELSE vis[i] + sum(vis, i + 1)

\* moves.iter().map(|&x| x.visits()).sum()
parent_visits(vis) == sum(vis, 1)

\* mutant of zero_visits: the total is never refused
zero_visits_ignored(total) == FALSE

\* the test before panic!("Parent visits were 0")
zero_visits(total) == total = 0

\* the loop over the moves: tensor.set(&indeces, probability), in the order of
\* the list; written counts the calls of set
RECURSIVE set_probabilities(_, _, _, _, _)
set_probabilities(tensor, moves, vis, total, i) ==
    IF i > Len(moves)
    THEN [panicked |-> FALSE, tensor |-> tensor, written |-> i - 1]
    ELSE IF indeces(moves[i]) = Unreachable
    THEN [panicked |-> TRUE, tensor |-> tensor, written |-> i - 1]
    ELSE set_probabilities([tensor EXCEPT ![indeces(moves[i])] = f32_div(vis[i], total)],
                           moves, vis, total, i + 1)

\* moves[i] has vis[i] visits; panicked says that the call ended in a panic
moves_to_tensorflow(moves, vis) ==
    IF zero_visits(parent_visits(vis))
    THEN [panicked |-> TRUE, tensor |-> Tensor_new, written |-> 0]
    ELSE set_probabilities(Tensor_new, moves, vis, parent_visits(vis), 1)

\* the evaluation of each move of the list, read from the policy (f32 as f64
\* is exact)
moves_to_evaluation(moves, tensor) ==
    [i \in 1 .. Len(moves) |-> tensor[indeces(moves[i])]]

-----------------------------------------------------------------------------
(* The game: BoardState::default(), then moves taken from available_moves *)

State ==
    [board |-> board, player_1_points |-> player_1_points,
     player_2_points |-> player_2_points, current_player |-> current_player,
     winner |-> winner]

\* no search has been made
NoRoot ==
    /\ root_moves = <<>>
    /\ visits = <<>>
    /\ policy = [panicked |-> FALSE, tensor |-> Tensor_new, written |-> 0]
    /\ evaluation = <<>>

NoResult == <<"None">>
NoData == [inputs |-> <<>>, output_policy |-> <<>>, output_value |-> <<>>]

\* main of learn.rs is not running
NoLearn ==
    /\ phase = "none"
    /\ episode = 0
    /\ histories = <<>>
    /\ game_result = NoResult
    /\ data = NoData
    /\ learn_results = <<>>
    /\ save_result = "none"
    /\ workers = <<>>

NoCall == <<"None">>

\* Coordinate::offset has not been called
NoOffset == offset_call = NoCall

Init ==
    /\ board = DefaultBoard
    /\ player_1_points = 0
    /\ player_2_points = 0
    /\ current_player = Player1
    /\ winner = TNone
    /\ mov = NoMove
    /\ results = <<>>
    /\ passes = <<>>
    /\ pre = DefaultState
    /\ ply = 0
    /\ panicked = NoMove
    /\ NoRoot
    /\ NoLearn
    /\ NoOffset

DropCols == (0 .. (LowCols - 1)) \cup {WIDTH - 1}

\* the call make_move(m) on the state, r being what it gives, but for ply
MovedTo(m, r) ==
    /\ board' = r.state.board
    /\ player_1_points' = r.state.player_1_points
    /\ player_2_points' = r.state.player_2_points
    /\ current_player' = r.state.current_player
    /\ winner' = r.state.winner
    /\ mov' = m
    /\ results' = r.results
    /\ passes' = r.passes
    /\ pre' = State
    /\ panicked' = NoMove

Moved(m, r) == MovedTo(m, r) /\ ply' = ply + 1

Play(m) ==
    \E r \in {BoardState_make_move(State, m)} :
       /\ Moved(m, r)
       /\ UNCHANGED <<rootVars, learnVars, offset_call>>

\* the moves a play may take: the actions of available_moves, the drops
\* restricted to DropCols
Playable(moves) ==
    {i \in 1 .. Len(moves) : moves[i][1] = "DropStone" => moves[i][3] \in DropCols}

PlayDrop ==
    /\ ply < MaxPly
    /\ \E m \in {available_moves(State)} : \E i \in Playable(m) :
          m[i][1] = "DropStone" /\ Play(m[i])

PlaySwitch ==
    /\ ply < MaxPly
    /\ \E m \in {available_moves(State)} : \E i \in Playable(m) :
          m[i][1] = "SwitchStone" /\ Play(m[i])

Next == PlayDrop \/ PlaySwitch

Spec == Init /\ [][Next]_vars

-----------------------------------------------------------------------------
(* The game from a position later in a game: the state BoardState::default()
   is in after the drops of MidGameCols, the players alternating, then moves
   taken from available_moves *)

MaxMore == 3

\* the columns of the drops that lead to a position: one where a switch makes
\* a row of three under stones that fall, one where a switch makes a four-line
\* of each player
MidGames ==
    {<<0, 2, 1, 2, 3, 7, 5, 4, 7, 6, 7, 6, 7, 7>>,
     <<0, 2, 1, 0, 3, 1, 2, 3, 7, 5, 7, 5, 7, 5>>}

\* make_move(DropStone(current_player, cols[i])) for i, i + 1, ... (the test on
\* the points is always false: it makes the state a value before the next move)
RECURSIVE play_drops(_, _, _)
play_drops(st, cols, i) ==
    IF i > Len(cols) \/ st.player_1_points < 0
    THEN st
    ELSE play_drops(BoardState_make_move(st, DropStone(st.current_player, cols[i])).state,
                    cols, i + 1)

MidGameStates == {play_drops(DefaultState, cols, 1) : cols \in MidGames}

\* ply starts MaxMore below MaxPly, so MaxMore moves are taken from the position
InitMidGame ==
    \E st \in MidGameStates :
       /\ board = st.board
       /\ player_1_points = st.player_1_points
       /\ player_2_points = st.player_2_points
       /\ current_player = st.current_player
       /\ winner = st.winner
       /\ mov = NoMove
       /\ results = <<>>
       /\ passes = <<>>
       /\ pre = DefaultState
       /\ ply = MaxPly - MaxMore
       /\ panicked = NoMove
       /\ NoRoot
       /\ NoLearn
       /\ NoOffset

MidGameSpec == InitMidGame /\ [][Next]_vars

-----------------------------------------------------------------------------
(* The policy of a search root: the root is a position of a game, its moves
   are the actions of available_moves, and the visits of the moves are drawn
   from VisitLists *)

\* largest number of visits of the first move of a list
MaxVisit == 2

\* the states one move after st
Successors(st, moves) ==
    {BoardState_make_move(st, moves[i]).state : i \in 1 .. Len(moves)}

\* the default state, the positions of MidGames, and the states one move later
RootStates ==
    UNION {{st} \cup Successors(st, available_moves(st)) :
              st \in {DefaultState} \cup MidGameStates}

\* the visits of a list of n moves: k, 2k, ..., nk for each k (all zero for
\* k = 0, all different else), and one visit of one move alone
VisitLists(n) ==
    {[i \in 1 .. n |-> k * i] : k \in 0 .. MaxVisit} \cup
    {[i \in 1 .. n |-> IF i = j THEN 1 ELSE 0] : j \in 1 .. n}

InitRoot ==
    \E st \in RootStates :
       /\ board = st.board
       /\ player_1_points = st.player_1_points
       /\ player_2_points = st.player_2_points
       /\ current_player = st.current_player
       /\ winner = st.winner
       /\ mov = NoMove
       /\ results = <<>>
       /\ passes = <<>>
       /\ pre = DefaultState
       /\ ply = 0
       /\ panicked = NoMove
       /\ NoRoot
       /\ NoLearn
       /\ NoOffset

\* moves_to_tensorflow on the moves of the root, then moves_to_evaluation on
\* the tensor it returned
PolicyOf(m, v, t) ==
    /\ root_moves' = m
    /\ visits' = v
    /\ policy' = t
    /\ evaluation' = IF t.panicked THEN <<>> ELSE moves_to_evaluation(m, t.tensor)

MovesToTensorflow ==
    /\ \E m \in {available_moves(State)} : \E v \in VisitLists(Len(m)) :
          \E t \in {moves_to_tensorflow(m, v)} : PolicyOf(m, v, t)
    /\ UNCHANGED <<gameVars, learnVars, offset_call>>

NextRoot == MovesToTensorflow

PolicySpec == InitRoot /\ [][NextRoot]_vars

-----------------------------------------------------------------------------
(* learn.rs: main and play_a_game.  Of the games of an episode one is
   followed.  play_a_game starts from BoardState::default(); the model joins
   it in a position of MidGames, with the histories of the drops that lead
   there. *)

EPISODES == 80

\* the number of calls of learn that take(10) lets through
LearnTries == 10

\* episodes of EPISODES the model runs
MaxEpisodes == 2

\* the visits of the n moves of a root whose move i was chosen: every move
\* was visited and the chosen one most
root_visits(n, i) == [j \in 1 .. n |-> IF j = i THEN 2 ELSE 1]

\* (state.clone(), MyMCTS::moves_to_tensorflow(moves.clone()))
recorded(st, moves, i) ==
    <<st, moves_to_tensorflow(moves, root_visits(Len(moves), i)).tensor>>

drop_index(moves, col) ==
    CHOOSE i \in 1 .. Len(moves) : moves[i][1] = "DropStone" /\ moves[i][3] = col

\* the histories of the game of the drops cols[i], cols[i + 1], ... from st
RECURSIVE drop_histories(_, _, _, _)
drop_histories(st, cols, i, hs) ==
    IF i > Len(cols) \/ Len(hs) < 0
    THEN hs
    ELSE drop_histories(
             BoardState_make_move(st, DropStone(st.current_player, cols[i])).state,
             cols, i + 1,
             Append(hs, recorded(st, available_moves(st),
                                 drop_index(available_moves(st), cols[i]))))

MidGameStarts ==
    {[state |-> play_drops(DefaultState, cols, 1),
      histories |-> drop_histories(DefaultState, cols, 1, <<>>)] : cols \in MidGames}

\* mutant of value_of: the value is that of Player1 for every state
value_of_player_1(player, w) ==
    IF w = "None" THEN 0 ELSE IF w = Player1 THEN 1 ELSE -1

\* the match on (s.current_player(), &result.winner)
value_of(player, w) ==
    IF w = "None" THEN 0 ELSE IF player = w THEN 1 ELSE -1

\* tensor.chunks(8 * 8) and chunks(8) of each
chunks(tensor) == [p \in 0 .. 2 |-> [x \in Xs |-> [y \in Ys |-> tensor[<<0, p, x, y>>]]]]

\* GameResult::new(state.get_winner(), histories)
GameResult(st, hs) == [winner |-> get_winner(st), histories |-> hs]

\* inputs, output_policy and output_value of main
TrainingData(res) ==
    [inputs |->
        [i \in 1 .. Len(res.histories) |-> BoardState_into(res.histories[i][1])],
     output_policy |->
        [i \in 1 .. Len(res.histories) |-> chunks(res.histories[i][2])],
     output_value |->
        [i \in 1 .. Len(res.histories) |->
            value_of(res.histories[i][1].current_player, res.winner)]]

\* the two assert! of main
asserts_hold(d) ==
    /\ Len(d.inputs) = Len(d.output_policy)
    /\ Len(d.inputs) = Len(d.output_value)

\* play_a_game is entered at g
Started(g) ==
    /\ board' = g.state.board
    /\ player_1_points' = g.state.player_1_points
    /\ player_2_points' = g.state.player_2_points
    /\ current_player' = g.state.current_player
    /\ winner' = g.state.winner
    /\ mov' = NoMove
    /\ results' = <<>>
    /\ passes' = <<>>
    /\ pre' = DefaultState
    /\ ply' = MaxPly - MaxMore
    /\ panicked' = NoMove
    /\ histories' = g.histories
    /\ phase' = "play"
    /\ game_result' = NoResult
    /\ data' = NoData
    /\ learn_results' = <<>>
    /\ save_result' = "none"

InitLearn ==
    \E g \in MidGameStarts :
       /\ board = g.state.board
       /\ player_1_points = g.state.player_1_points
       /\ player_2_points = g.state.player_2_points
       /\ current_player = g.state.current_player
       /\ winner = g.state.winner
       /\ mov = NoMove
       /\ results = <<>>
       /\ passes = <<>>
       /\ pre = DefaultState
       /\ ply = MaxPly - MaxMore
       /\ panicked = NoMove
       /\ NoRoot
       /\ phase = "play"
       /\ episode = 0
       /\ histories = g.histories
       /\ game_result = NoResult
       /\ data = NoData
       /\ learn_results = <<>>
       /\ save_result = "none"
       /\ workers = <<>>
       /\ NoOffset

\* one turn of the loop of play_a_game: the state is not terminal, it is
\* pushed with the tensor of the root's moves, and a visited move is made
SelfPlayMove ==
    /\ phase = "play"
    /\ ply < MaxPly
    /\ \E m \in {available_moves(State)} : \E i \in 1 .. Len(m) :
          \E r \in {BoardState_make_move(State, m[i])} :
             /\ Moved(m[i], r)
             /\ histories' = Append(histories, recorded(State, m, i))
    /\ UNCHANGED <<rootVars, phase, episode, game_result, data, learn_results,
                   save_result, workers, offset_call>>

\* mutant of save_is_fatal: an Err of save ends main
save_is_fatal_on_err(sr) == sr = "Err"

\* if let Err(e) = data.save(..) { println!(..) }: whatever save returns,
\* main goes on
save_is_fatal(sr) == FALSE

\* the state is terminal: play_a_game returns, main builds the TrainingData,
\* passes its asserts and calls save, which returns sr
Collected(res, d, sr) ==
    /\ game_result' = res
    /\ data' = d
    /\ save_result' = IF asserts_hold(d) THEN sr ELSE "none"
    /\ phase' = IF asserts_hold(d) /\ ~save_is_fatal(sr) THEN "learn" ELSE "aborted"

Collect ==
    /\ phase = "play"
    /\ is_terminal(State)
    /\ \E res \in {GameResult(State, histories)} :
          \E d \in {TrainingData(res)} :
             \E sr \in {"Ok", "Err"} : Collected(res, d, sr)
    /\ histories' = <<>>
    /\ learn_results' = <<>>
    /\ UNCHANGED <<gameVars, rootVars, episode, workers, offset_call>>

\* mutant of found: find never stops
found_never(a) == FALSE

\* the closure given to find: true on Ok(_), false on Err(_)
found(a) == a = "Ok"

\* one call of learn, a being what it returns: find stops when it is found,
\* and expect panics when take(10) is exhausted
Learn(a) ==
    /\ phase = "learn"
    /\ Len(learn_results) < LearnTries
    /\ learn_results' = Append(learn_results, a)
    /\ phase' = IF found(a) THEN "learned"
                ELSE IF Len(learn_results) + 1 = LearnTries THEN "aborted"
                ELSE "learn"
    /\ UNCHANGED <<gameVars, rootVars, episode, histories, game_result, data,
                   save_result, workers, offset_call>>

LearnOk == Learn("Ok")

LearnErr == Learn("Err")

\* the next turn of for episode in start..EPISODES
StartEpisode ==
    /\ phase = "learned"
    /\ episode + 1 < EPISODES
    /\ episode + 1 < MaxEpisodes
    /\ episode' = episode + 1
    /\ \E g \in MidGameStarts : Started(g)
    /\ UNCHANGED <<rootVars, workers, offset_call>>

NextLearn == SelfPlayMove \/ Collect \/ LearnOk \/ LearnErr \/ StartEpisode

\* main runs on: a call of learn returns
LearnSpec == InitLearn /\ [][NextLearn]_vars /\ WF_vars(LearnOk \/ LearnErr)

-----------------------------------------------------------------------------
(* learn.rs: the parallel self-play of an episode.  The games are the items
   of (0..GAMES_TO_PLAY).into_par_iter().map(..).collect(): a pool thread
   takes a game, plays it reading the model, and returns its GameResult;
   collect returns when every item has been mapped.  The games themselves are
   left out: a worker is queued, playing (with a number of plies made) or
   returned. *)

GAMES_TO_PLAY == 25

\* games of GAMES_TO_PLAY the model runs in an episode
MaxGames == 2

\* plies of a game
MaxWorkerPlies == 2

Games == 1 .. (IF GAMES_TO_PLAY < MaxGames THEN GAMES_TO_PLAY ELSE MaxGames)

Queued == [pc |-> "queued", plies |-> 0]

\* mutant of joined: collect returns with the first result
joined_any(ws) == \E w \in DOMAIN ws : ws[w].pc = "returned"

\* collect has every result
joined(ws) == \A w \in DOMAIN ws : ws[w].pc = "returned"

InitWorkers ==
    /\ board = DefaultBoard
    /\ player_1_points = 0
    /\ player_2_points = 0
    /\ current_player = Player1
    /\ winner = TNone
    /\ mov = NoMove
    /\ results = <<>>
    /\ passes = <<>>
    /\ pre = DefaultState
    /\ ply = 0
    /\ panicked = NoMove
    /\ NoRoot
    /\ phase = "play"
    /\ episode = 0
    /\ histories = <<>>
    /\ game_result = NoResult
    /\ data = NoData
    /\ learn_results = <<>>
    /\ save_result = "none"
    /\ workers = [w \in Games |-> Queued]
    /\ NoOffset

\* what the steps of the workers and of the learn loop leave alone
WorkerFrame ==
    UNCHANGED <<gameVars, rootVars, histories, game_result, data, save_result,
                offset_call>>

\* a thread of the pool takes game w: play_a_game(model.clone())
WorkerStart ==
    /\ phase = "play"
    /\ \E w \in Games :
          /\ workers[w].pc = "queued"
          /\ workers' = [workers EXCEPT ![w].pc = "playing"]
    /\ UNCHANGED <<phase, episode, learn_results>>
    /\ WorkerFrame

\* one turn of the loop of play_a_game of game w: playouts with the model
WorkerPly ==
    /\ \E w \in Games :
          /\ workers[w].pc = "playing"
          /\ workers[w].plies < MaxWorkerPlies
          /\ workers' = [workers EXCEPT ![w].plies = @ + 1]
    /\ UNCHANGED <<phase, episode, learn_results>>
    /\ WorkerFrame

\* play_a_game of game w returns its GameResult
WorkerReturn ==
    /\ \E w \in Games :
          /\ workers[w].pc = "playing"
          /\ workers' = [workers EXCEPT ![w].pc = "returned"]
    /\ UNCHANGED <<phase, episode, learn_results>>
    /\ WorkerFrame

\* collect returns; main aggregates, asserts and saves, and is before learn
Aggregate ==
    /\ phase = "play"
    /\ joined(workers)
    /\ phase' = "learn"
    /\ UNCHANGED <<workers, episode, learn_results>>
    /\ WorkerFrame

\* learn is called: the model is being trained
LearnBegin ==
    /\ phase = "learn"
    /\ Len(learn_results) < LearnTries
    /\ phase' = "learning"
    /\ UNCHANGED <<workers, episode, learn_results>>
    /\ WorkerFrame

\* the call of learn returns a
LearnEnd(a) ==
    /\ phase = "learning"
    /\ learn_results' = Append(learn_results, a)
    /\ phase' = IF found(a) THEN "learned"
                ELSE IF Len(learn_results) + 1 = LearnTries THEN "aborted"
                ELSE "learn"
    /\ UNCHANGED <<workers, episode>>
    /\ WorkerFrame

LearnEndOk == LearnEnd("Ok")

LearnEndErr == LearnEnd("Err")

\* the next turn of for episode in start..EPISODES: to_tf_model, and the
\* games of the episode are queued
NextEpisode ==
    /\ phase = "learned"
    /\ episode + 1 < EPISODES
    /\ episode + 1 < MaxEpisodes
    /\ episode' = episode + 1
    /\ phase' = "play"
    /\ workers' = [w \in Games |-> Queued]
    /\ learn_results' = <<>>
    /\ WorkerFrame

NextWorkers ==
    \/ WorkerStart \/ WorkerPly \/ WorkerReturn \/ Aggregate
    \/ LearnBegin \/ LearnEndOk \/ LearnEndErr \/ NextEpisode

WorkerSpec == InitWorkers /\ [][NextWorkers]_vars

-----------------------------------------------------------------------------
(* Vocabulary of the properties: maximal straight runs, read off the grid *)

RunDirs == {<<1, 0>>, <<0, 1>>, <<1, 1>>, <<1, -1>>}

CellAt(b, c) == IF c \in Coords THEN b[c[1]][c[2]] ELSE Empty

Along(c, d, k) == <<c[1] + k * d[1], c[2] + k * d[2]>>

\* the n cells from s in direction d are p's and the cells before and after are not
IsMaximalRun(b, p, s, d, n) ==
    /\ \A k \in 0 .. (n - 1) : CellAt(b, Along(s, d, k)) = p
    /\ CellAt(b, Along(s, d, -1)) # p
    /\ CellAt(b, Along(s, d, n)) # p

MaximalRuns(b, p) ==
    {r \in [start : {c \in Coords : b[c[1]][c[2]] = p}, dir : RunDirs, len : 1 .. WIDTH] :
        IsMaximalRun(b, p, r.start, r.dir, r.len)}

\* a column without an Empty cell below a stone
Packed(column) == \A y \in Ys : column[y] = Empty => \A z \in Ys : z > y => column[z] = Empty

\* a board as make_move leaves it when it reports no terminal event: stones
\* rest on stones, and no run of three or more
AtRest(b) ==
    /\ \A x \in Xs : Packed(b[x])
    /\ \A p \in Players : \A r \in MaximalRuns(b, p) : r.len < 3

HasFour(b, p) == \E r \in MaximalRuns(b, p) : r.len = 4
HasLong(b, p) == \E r \in MaximalRuns(b, p) : r.len >= 5

-----------------------------------------------------------------------------
(* The board on its own: Board::from or Board::default(), then make_move calls.
   Board::from accepts any layout of X, O and blank, so every grid is a board. *)

cell_of(ch) ==
    IF ch = "X" THEN Filled(Player1) ELSE IF ch = "O" THEN Filled(Player2) ELSE Empty

\* a[1] is the top row (y = HEIGHT - 1); each row is its characters
Board_from(a) == [x \in Xs |-> [y \in Ys |-> cell_of(a[HEIGHT - y][x + 1])]]

\* the board of tests::multiple_three
MultipleThreeRows ==
    <<
        <<"X", "X", "O", " ", " ", " ", " ", " ">>,
        <<"O", "O", "X", " ", " ", " ", " ", " ">>,
        <<"X", "X", "O", " ", " ", " ", " ", " ">>,
        <<"O", "O", "X", " ", " ", " ", " ", " ">>,
        <<"X", "X", "O", " ", "X", " ", " ", " ">>,
        <<"O", "O", "X", " ", "O", " ", " ", " ">>,
        <<"X", "X", "O", " ", "O", "X", "X", " ">>,
        <<"O", "O", "X", " ", "X", "O", "O", "X">>
    >>

\* the board of tests::multiple_three_into_win
MultipleThreeIntoWinRows ==
    <<
        <<" ", " ", " ", " ", " ", " ", " ", " ">>,
        <<" ", " ", "O", "O", " ", " ", " ", " ">>,
        <<" ", " ", "O", "O", " ", " ", " ", " ">>,
        <<" ", " ", "X", "X", " ", " ", " ", " ">>,
        <<" ", "X", "O", "O", " ", " ", " ", " ">>,
        <<" ", "O", "X", "X", " ", " ", " ", " ">>,
        <<" ", "X", "O", "O", " ", " ", " ", " ">>,
        <<"O", "O", "X", "X", " ", " ", " ", " ">>
    >>

TestBoards == {Board_from(MultipleThreeRows), Board_from(MultipleThreeIntoWinRows)}

\* a board on which a drop of Player1 in column 0 completes a triple whose
\* removal lines up a four-line of each player
CascadeDrawRows ==
    <<
        <<" ", " ", " ", " ", " ", " ", " ", " ">>,
        <<" ", " ", " ", " ", " ", " ", " ", " ">>,
        <<" ", " ", " ", " ", " ", " ", " ", " ">>,
        <<" ", " ", " ", " ", " ", " ", " ", " ">>,
        <<" ", "O", "O", " ", " ", " ", " ", " ">>,
        <<" ", "X", "X", "O", "O", " ", " ", " ">>,
        <<" ", "O", "O", "X", "X", " ", " ", " ">>,
        <<" ", "X", "X", "O", "O", " ", " ", " ">>
    >>

CraftedBoards == {Board_from(CascadeDrawRows)}

BoardDropCols == {0, 3, 4}
BoardSwitches == {<<(<<2, 0>>), (<<3, 0>>)>>, <<(<<3, 1>>), (<<3, 2>>)>>}

\* generated boards: a straight run of one player with one cell missing, the
\* missing cell on top of its column, every column filled below the run with
\* a pattern of pairs
GapRuns ==
    {r \in [start : Coords, dir : RunDirs, len : 3 .. MaxRun, gap : 0 .. 2,
            player : Players, fill : 0 .. 1] :
        /\ r.len - r.gap <= 3
        /\ Along(r.start, r.dir, r.len - 1) \in Coords
        /\ Along(r.start, r.dir, r.gap)[1] \in BoardDropCols}

Filler(x, y, fill) == IF ((x \div 2) + y + fill) % 2 = 0 THEN Player1 ELSE Player2

GapBoard(r) ==
    LET cells == {Along(r.start, r.dir, k) : k \in 0 .. (r.len - 1)}
        gap == Along(r.start, r.dir, r.gap)
    IN [x \in Xs |-> [y \in Ys |->
           IF <<x, y>> = gap THEN Empty
           ELSE IF <<x, y>> \in cells THEN Filled(r.player)
           ELSE IF \E c \in cells : c[1] = x /\ y < c[2] THEN Filled(Filler(x, y, r.fill))
           ELSE Empty]]

GapBoards == {b \in {GapBoard(r) : r \in GapRuns} : AtRest(b)}

InitBoards == {DefaultBoard} \cup TestBoards \cup CraftedBoards \cup GapBoards

InitBoard ==
    /\ board \in InitBoards
    /\ player_1_points = 0
    /\ player_2_points = 0
    /\ current_player = Player1
    /\ winner = TNone
    /\ mov = NoMove
    /\ results = <<>>
    /\ passes = <<>>
    /\ pre = DefaultState
    /\ ply = 0
    /\ panicked = NoMove
    /\ NoRoot
    /\ NoLearn
    /\ NoOffset

\* one call of Board::make_move on the board alone
BoardCall(m) ==
    \E r \in {Board_make_move(board, m)} :
       /\ board' = r.board
       /\ mov' = m
       /\ results' = r.results
       /\ passes' = r.passes
       /\ pre' = State
       /\ ply' = ply + 1
       /\ panicked' = NoMove
       /\ UNCHANGED <<player_1_points, player_2_points, current_player, winner>>
       /\ UNCHANGED <<rootVars, learnVars, offset_call>>

\* a call of Board::make_move that panics on its assertion: nothing has been
\* written and nothing is returned
BoardPanic(m) ==
    /\ panicked' = m
    /\ ply' = ply + 1
    /\ UNCHANGED <<board, player_1_points, player_2_points, current_player, winner,
                   mov, results, passes, pre>>
    /\ UNCHANGED <<rootVars, learnVars, offset_call>>

\* DropStone on a column of BoardDropCols: the call is made if the assertion
\* of make_move passes, and panics if not
BoardDrop ==
    /\ ply < MaxCalls
    /\ \E p \in Players, col \in BoardDropCols :
          IF drop_asserts(board, col)
          THEN BoardCall(DropStone(p, col))
          ELSE BoardPanic(DropStone(p, col))

BoardSwitch ==
    /\ ply < MaxCalls
    /\ \E s \in BoardSwitches : BoardCall(SwitchStone(s[1], s[2]))

NextBoard == BoardDrop \/ BoardSwitch

BoardSpec == InitBoard /\ [][NextBoard]_vars

-----------------------------------------------------------------------------
(* Vocabulary of the properties: the last call *)

Called == mov # NoMove
IsDrop == mov[1] = "DropStone"
IsSwitch == mov[1] = "SwitchStone"

-----------------------------------------------------------------------------
(* Properties *)

\* the terminal status read off the maximal runs of b
StatusByRuns(b) ==
    IF HasFour(b, Player1) /\ HasFour(b, Player2) THEN TDraw
    ELSE IF HasFour(b, Player1) THEN TWin(Player1)
    ELSE IF HasFour(b, Player2) THEN TWin(Player2)
    ELSE TNone

\* C1: get_board_terminal_status reports Win(p) exactly when p has a maximal
\* straight run of length exactly 4 (horizontal, vertical or diagonal) and the
\* other player has none; a run of length 5 or more never counts, so without a
\* run of length exactly 4 the board is not terminal.  Stated of the board
\* between calls and of the board every pass of make_move evaluates.
C1_WinIffExactFour ==
    /\ \A p \in Players :
          (get_board_terminal_status(board) = TWin(p))
              <=> (HasFour(board, p) /\ ~HasFour(board, next_player(p)))
    /\ (\A p \in Players : ~HasFour(board, p)) => get_board_terminal_status(board) = TNone
    /\ \A i \in 1 .. Len(passes) : passes[i].status = StatusByRuns(passes[i].start)

\* C1 witness: the first pass of a call evaluates a board on which a player
\* has a run of length 5 or more and no player has a run of exactly 4, and
\* finds it not terminal.
C1_Witness ==
    /\ Called
    /\ \E p \in Players : HasLong(passes[1].start, p)
    /\ \A p \in Players : ~HasFour(passes[1].start, p)
    /\ passes[1].status = TNone

\* C2: when both players have a four-line at the start of any pass of the
\* resolution loop of Board::make_move, the call ends with Draw and returns no
\* Winner; a Winner(p) is returned only when p has a four-line and the
\* opponent has none.
C2_DrawWhenBothFour ==
    Called =>
       /\ \A i \in 1 .. Len(passes) :
             (HasFour(passes[i].start, Player1) /\ HasFour(passes[i].start, Player2)) =>
                 /\ Len(results) > 0
                 /\ results[Len(results)] = Draw
                 /\ \A j \in 1 .. Len(results) : results[j][1] # "Winner"
       /\ \A j \in 1 .. Len(results) : \A p \in Players :
             results[j] = Winner(p) =>
                 HasFour(board, p) /\ ~HasFour(board, next_player(p))

\* C2 witness: both players have a four-line only after a cascade removal
\* (in a pass after the first), and the call has ended with Draw.
C2_Witness ==
    /\ Called
    /\ \E i \in 2 .. Len(passes) :
          /\ HasFour(passes[i].start, Player1) /\ HasFour(passes[i].start, Player2)
          /\ ~(HasFour(passes[1].start, Player1) /\ HasFour(passes[1].start, Player2))
    /\ results[Len(results)] = Draw

\* what find_points would still score on board b
Pending(b) == \E p \in Players : find_points(b, p).points > 0

\* C3 as claimed: after every call of Board::make_move nothing is left that
\* find_points would score, and the terminal status of the board is the one
\* the call reported.
C3_FullyResolved ==
    Called =>
       /\ ~Pending(board)
       /\ get_board_terminal_status(board) = winner_of(results)

\* C3 amended: the terminal status of the board after the call is always the
\* one reported, and when the call reported no terminal event the board holds
\* nothing find_points would score and no run of three or more at all; a call
\* that ends with Winner or Draw returns at once and may leave such runs.
C3_ResolvedUnlessTerminal ==
    Called =>
       /\ get_board_terminal_status(board) = winner_of(results)
       /\ winner_of(results) = TNone =>
             /\ ~Pending(board)
             /\ \A p \in Players : \A r \in MaximalRuns(board, p) : r.len < 3

\* C3 witness: a call that cascaded (scored and removed in a first pass) and
\* returned without a terminal event.
C3_Witness ==
    /\ Called
    /\ Len(passes) >= 3
    /\ winner_of(results) = TNone

\* C4: the events returned by Board::make_move hold at most one terminal event
\* and it is the last one; the pass that finds the board terminal is the last
\* pass, appends only that event and removes no stone.
C4_TerminalEventLast ==
    Called =>
       /\ \A j \in 1 .. (Len(results) - 1) : results[j][1] = "Three"
       /\ \A i \in 1 .. Len(passes) :
             (\E p \in Players : HasFour(passes[i].start, p)) =>
                 /\ i = Len(passes)
                 /\ passes[i].events \in {<<Draw>>, <<Winner(Player1)>>, <<Winner(Player2)>>}
                 /\ results[Len(results)] = passes[i].events[1]
                 /\ passes[i].total = <<>>
                 /\ board = passes[i].start

\* C4 witness: tests::multiple_three_into_win, a drop of Player1 scores a
\* Three for Player1 and the removal gives Player2 the four-line.
C4_Witness ==
    /\ Called
    /\ IsDrop
    /\ mov[2] = Player1
    /\ results = <<Three(Player1), Winner(Player2)>>

\* the maximal runs one pass should score: length 3, or 5 and more
ScoringRuns(b, p) == {r \in MaximalRuns(b, p) : r.len = 3 \/ r.len >= 5}

\* C5 as claimed: in every scoring pass find_points yields exactly one Three
\* per maximal run of length 3 or of length 5 and more, in all four directions.
C5_OneThreePerRun ==
    Called =>
       \A i \in 1 .. Len(passes) :
          passes[i].status = TNone =>
             /\ passes[i].p1 = Cardinality(ScoringRuns(passes[i].start, Player1))
             /\ passes[i].p2 = Cardinality(ScoringRuns(passes[i].start, Player2))

RunCellsOf(r) == {Along(r.start, r.dir, k) : k \in 0 .. (r.len - 1)}

ScoredCells(b) == UNION {RunCellsOf(r) : r \in ScoringRuns(b, Player1) \cup ScoringRuns(b, Player2)}

\* column x of b with the cells of removed deleted, the rest packed downward
ColumnWithout(b, x, removed) ==
    LET kept == SelectSeq([i \in 1 .. HEIGHT |-> i - 1], LAMBDA y : <<x, y>> \notin removed)
    IN [y \in Ys |-> IF y < Len(kept) THEN b[x][kept[y + 1]] ELSE Empty]

\* C6: the removal step of a pass removes exactly the cells of the scored
\* runs, and every column afterwards is the column before with those cells
\* deleted: the survivors keep their order and move down, the freed cells at
\* the top are Empty, and a column without holes stays without holes.
C6_RemovalDeletesCells ==
    Called =>
       \A i \in 1 .. Len(passes) :
          passes[i].status = TNone =>
             /\ SeqRange(passes[i].total) = ScoredCells(passes[i].start)
             /\ \A x \in Xs :
                   /\ passes[i].after[x] = ColumnWithout(passes[i].start, x, SeqRange(passes[i].total))
                   /\ Packed(passes[i].start[x]) => Packed(passes[i].after[x])

\* C6 witness: a pass removes two cells of one column that has a surviving
\* stone above them, and one removed cell belongs to two scored runs.
C6_Witness ==
    /\ Called
    /\ \E i \in 1 .. Len(passes) :
          LET removed == SeqRange(passes[i].total)
              b == passes[i].start
          IN /\ \E x \in Xs : \E y1, y2, y3 \in Ys :
                   /\ y1 < y2 /\ y2 < y3
                   /\ <<x, y1>> \in removed /\ <<x, y2>> \in removed
                   /\ <<x, y3>> \notin removed /\ b[x][y3] # Empty
             /\ \E r1, r2 \in ScoringRuns(b, Player1) \cup ScoringRuns(b, Player2) :
                   r1 # r2 /\ RunCellsOf(r1) \cap RunCellsOf(r2) # {}

-----------------------------------------------------------------------------
(* Properties of the game state *)

PointsOf(p) == IF p = Player1 THEN player_1_points ELSE player_2_points
PrePointsOf(p) == IF p = Player1 THEN pre.player_1_points ELSE pre.player_2_points

Adjacent(a, c) ==
    \/ a[1] = c[1] /\ (a[2] = c[2] + 1 \/ c[2] = a[2] + 1)
    \/ a[2] = c[2] /\ (a[1] = c[1] + 1 \/ c[1] = a[1] + 1)

\* two cells of the board filled by different players
DifferentPlayers(a, c) ==
    /\ a \in Coords /\ c \in Coords
    /\ board[a[1]][a[2]] \in Players /\ board[c[1]][c[2]] \in Players
    /\ board[a[1]][a[2]] # board[c[1]][c[2]]

\* C7: every action available_moves returns is a DropStone of the current
\* player on a column whose top cell is Empty, or a SwitchStone of two
\* in-bounds four-connected neighbours filled by different players, and a
\* SwitchStone is returned only when the current player's points are > 0.
C7_AvailableMovesSound ==
    \A moves \in {available_moves(State)} : \A i \in 1 .. Len(moves) :
       IF moves[i][1] = "DropStone"
       THEN /\ moves[i][2] = current_player
            /\ moves[i][3] \in Xs
            /\ board[moves[i][3]][HEIGHT - 1] = Empty
       ELSE /\ moves[i][1] = "SwitchStone"
            /\ Adjacent(moves[i][2], moves[i][3])
            /\ DifferentPlayers(moves[i][2], moves[i][3])
            /\ PointsOf(current_player) > 0

\* C7 witness: available_moves returns a DropStone, a horizontal SwitchStone
\* and a vertical SwitchStone.
C7_Witness ==
    \E moves \in {available_moves(State)} :
       /\ \E i \in 1 .. Len(moves) : moves[i][1] = "DropStone"
       /\ \E i \in 1 .. Len(moves) :
             moves[i][1] = "SwitchStone" /\ moves[i][2][2] = moves[i][3][2]
       /\ \E i \in 1 .. Len(moves) :
             moves[i][1] = "SwitchStone" /\ moves[i][2][1] = moves[i][3][1]

\* the DropStone actions of the non-full columns in ascending column order
FreeColumnDrops ==
    LET cols == SelectSeq([i \in 1 .. WIDTH |-> i - 1], LAMBDA c : board[c][HEIGHT - 1] = Empty)
    IN [i \in 1 .. Len(cols) |-> DropStone(current_player, cols[i])]

\* C8 as claimed: in a non-terminal state available_moves returns one
\* DropStone for every non-full column in ascending column order and, when
\* the mover's points are > 0, one SwitchStone for every pair of horizontally
\* or vertically adjacent cells filled by different players, in every row and
\* in every column, the last column included.
C8_AvailableMovesComplete ==
    (~HasFour(board, Player1) /\ ~HasFour(board, Player2)) =>
       \A moves \in {available_moves(State)} :
          /\ SelectSeq(moves, LAMBDA m : m[1] = "DropStone") = FreeColumnDrops
          /\ PointsOf(current_player) > 0 =>
                \A a \in Coords : \A d \in {<<1, 0>>, <<0, 1>>} :
                   DifferentPlayers(a, CoordAdd(a, d)) =>
                      Cardinality({i \in 1 .. Len(moves) :
                                      /\ moves[i][1] = "SwitchStone"
                                      /\ {moves[i][2], moves[i][3]} = {a, CoordAdd(a, d)}}) = 1

\* the Three(p) events the board returned for the last move
ThreeEvents(p) == Cardinality({j \in 1 .. Len(results) : results[j] = Three(p)})

\* C9: after BoardState::make_move each player's points are the points before
\* plus the number of Three events of that player returned by the board,
\* minus 1 when the action is a SwitchStone and that player is the mover;
\* Winner and Draw events change no counter.
C9_PointAccounting ==
    Called =>
       \A p \in Players :
          PointsOf(p) = PrePointsOf(p) + ThreeEvents(p)
                          - (IF IsSwitch /\ pre.current_player = p THEN 1 ELSE 0)

\* C9 witness: a SwitchStone whose resolution returned a Three event of the
\* player who did not move, so the mover paid 1 and the other player gained.
C9_Witness ==
    /\ Called
    /\ IsSwitch
    /\ ThreeEvents(next_player(pre.current_player)) > 0
    /\ PointsOf(next_player(pre.current_player)) > PrePointsOf(next_player(pre.current_player))
    /\ PointsOf(pre.current_player) < PrePointsOf(pre.current_player) + ThreeEvents(pre.current_player)

\* C10: with moves taken from available_moves, a SwitchStone is made only when
\* the mover's points are > 0, and neither point counter goes below zero.
C10_NoDecrementAtZero ==
    /\ player_1_points >= 0
    /\ player_2_points >= 0
    /\ (Called /\ IsSwitch) => PrePointsOf(pre.current_player) > 0

\* C10 witness: a SwitchStone made with exactly one point and scoring nothing
\* leaves the mover's counter at 0.
C10_Witness ==
    /\ Called
    /\ IsSwitch
    /\ PrePointsOf(pre.current_player) = 1
    /\ PointsOf(pre.current_player) = 0

-----------------------------------------------------------------------------
(* Properties of single moves *)

\* the stones of a column
StonesIn(column) == Cardinality({y \in Ys : column[y] # Empty})

\* the last call was DropStone(p, col); the row its stone landed on
DropCol == mov[3]
DropPlayer == mov[2]
DropRow == StonesIn(pre.board[DropCol])

\* the board of the last call directly after its stone was placed
Dropped == [pre.board EXCEPT ![DropCol][DropRow] = DropPlayer]

\* the length of the vertical run the dropped stone tops
RECURSIVE RunBelow(_, _, _, _)
RunBelow(b, p, x, y) == IF y >= 0 /\ b[x][y] = p THEN 1 + RunBelow(b, p, x, y - 1) ELSE 0

VerticalRun == RunBelow(Dropped, DropPlayer, DropCol, DropRow)

\* on the board after the drop the only run of three or more, of either
\* player, is the vertical run the dropped stone tops
NoOtherLine ==
    \A q \in Players : \A r \in MaximalRuns(Dropped, q) :
       r.len >= 3 =>
          /\ q = DropPlayer
          /\ r.dir = <<0, 1>>
          /\ r.start = <<DropCol, DropRow - VerticalRun + 1>>

\* C11: a DropStone whose stone tops a vertical run of its player and forms no
\* other line returns no event when the run has length 1 or 2 and leaves the
\* stone in place; when the run has length 3 it returns exactly [Three(player)]
\* and the three stones are removed, the rest of the board unchanged, so a
\* column that held only those stones is empty.
C11_VerticalTriple ==
    (Called /\ IsDrop /\ NoOtherLine) =>
       /\ VerticalRun \in {1, 2} => (results = <<>> /\ board = Dropped)
       /\ VerticalRun = 3 =>
             /\ results = <<Three(DropPlayer)>>
             /\ board = [pre.board EXCEPT ![DropCol][DropRow - 1] = Empty,
                                          ![DropCol][DropRow - 2] = Empty]
             /\ DropRow = 2 => StonesIn(board[DropCol]) = 0

\* C11 witness: the third stone of one player on an otherwise empty column
\* returned exactly one Three and the column is empty again.
C11_Witness ==
    /\ Called /\ IsDrop /\ NoOtherLine
    /\ VerticalRun = 3
    /\ DropRow = 2
    /\ results = <<Three(DropPlayer)>>
    /\ StonesIn(board[DropCol]) = 0

\* the board of the last call, a SwitchStone, directly after the exchange
Switched ==
    [pre.board EXCEPT ![mov[2][1]][mov[2][2]] = pre.board[mov[3][1]][mov[3][2]],
                      ![mov[3][1]][mov[3][2]] = pre.board[mov[2][1]][mov[2][2]]]

\* the runs of three or more on board b, each with its player
LinesOf(b) ==
    UNION {{<<q, r>> : r \in {m \in MaximalRuns(b, q) : m.len >= 3}} : q \in Players}

\* the last call exchanged two adjacent stones of different players and the
\* only line on the board after the exchange is a horizontal run of exactly
\* three stones of player q through one of the exchanged cells
SwitchMadeRow(q) ==
    /\ Called /\ IsSwitch
    /\ Adjacent(mov[2], mov[3])
    /\ pre.board[mov[2][1]][mov[2][2]] \in Players
    /\ pre.board[mov[3][1]][mov[3][2]] \in Players
    /\ pre.board[mov[2][1]][mov[2][2]] # pre.board[mov[3][1]][mov[3][2]]
    /\ Cardinality(LinesOf(Switched)) = 1
    /\ \A l \in LinesOf(Switched) :
          /\ l[1] = q
          /\ l[2].dir = <<1, 0>>
          /\ l[2].len = 3
          /\ {mov[2], mov[3]} \cap RunCellsOf(l[2]) # {}

\* C12 as claimed: such a SwitchStone returns exactly one Three event, for the
\* player of the row, and nothing else; the mover is charged 1 and the owner
\* of the row is credited 1.
C12_SwitchRowOneThree ==
    \A q \in Players :
       SwitchMadeRow(q) =>
          /\ results = <<Three(q)>>
          /\ \A p \in Players :
                PointsOf(p) = PrePointsOf(p)
                                - (IF p = pre.current_player THEN 1 ELSE 0)
                                + (IF p = q THEN 1 ELSE 0)

\* the board after the exchange with the cells of its lines removed and the
\* stones above them fallen
AfterRow ==
    [x \in Xs |->
        ColumnWithout(Switched, x, UNION {RunCellsOf(l[2]) : l \in LinesOf(Switched)})]

\* C12 amended: such a SwitchStone returns Three of the row's player as its
\* first event; the mover is charged 1 and each player is credited the Three
\* events of its own; the Three is the only event, and the row's owner is
\* credited exactly 1, when the removal of the row and the fall of the stones
\* above it leave no line of three or more.
C12_SwitchRowFirstThree ==
    \A q \in Players :
       SwitchMadeRow(q) =>
          /\ Len(results) >= 1
          /\ results[1] = Three(q)
          /\ \A p \in Players :
                PointsOf(p) = PrePointsOf(p)
                                - (IF p = pre.current_player THEN 1 ELSE 0)
                                + ThreeEvents(p)
          /\ LinesOf(AfterRow) = {} =>
                /\ results = <<Three(q)>>
                /\ \A p \in Players :
                      PointsOf(p) = PrePointsOf(p)
                                      - (IF p = pre.current_player THEN 1 ELSE 0)
                                      + (IF p = q THEN 1 ELSE 0)

\* C12 witness: a switch by one player made a row of three of the other
\* player, a stone above the row fell, and the call returned exactly one Three.
C12_Witness ==
    \E q \in Players :
       /\ SwitchMadeRow(q)
       /\ q # pre.current_player
       /\ AfterRow # Switched
       /\ \E x \in Xs : StonesIn(AfterRow[x]) > 0 /\ StonesIn(AfterRow[x]) < StonesIn(Switched[x])
       /\ results = <<Three(q)>>

\* the number of events the passes before pass i appended: one for a pass
\* that found the board terminal, else what find_points counted
RECURSIVE EventsBefore(_)
EventsBefore(i) ==
    IF i <= 1 THEN 0
    ELSE EventsBefore(i - 1)
           + (IF passes[i - 1].status # TNone THEN 1
              ELSE passes[i - 1].p1 + passes[i - 1].p2)

\* C13: the events returned by Board::make_move are the events of its passes
\* in pass order, and the events of one scoring pass are its Three(Player1)
\* events followed by its Three(Player2) events.
C13_EventOrder ==
    Called =>
       /\ Len(results) = EventsBefore(Len(passes) + 1)
       /\ \A i \in 1 .. Len(passes) :
             passes[i].status = TNone =>
                /\ \A j \in 1 .. passes[i].p1 :
                      results[EventsBefore(i) + j] = Three(Player1)
                /\ \A j \in 1 .. passes[i].p2 :
                      results[EventsBefore(i) + passes[i].p1 + j] = Three(Player2)

\* C13 witness: the cascade of tests::multiple_three, where a Three(Player1)
\* of a later pass follows the Three(Player2) events of an earlier pass.
C13_Witness ==
    /\ Called
    /\ results = <<Three(Player1)>>
                   \o <<Three(Player1), Three(Player1), Three(Player1)>>
                   \o <<Three(Player2), Three(Player2), Three(Player2), Three(Player2),
                        Three(Player2)>>
                   \o <<Three(Player1)>>
    /\ Len(passes) = 4
    /\ passes[2].p1 = 3 /\ passes[2].p2 = 5

-----------------------------------------------------------------------------
(* Properties of the end of the game *)

\* C14: the cached winner is the terminal status of the board, so get_winner
\* returns Some(p) exactly when the board's status is Win(p) and None for Draw
\* and for a board that is not terminal, and the status get_winner derives
\* when the cache is None is None too.
C14_WinnerCache ==
    /\ winner = StatusByRuns(board)
    /\ \A p \in Players : (get_winner(State) = p) <=> (StatusByRuns(board) = TWin(p))
    /\ StatusByRuns(board) \in {TDraw, TNone} => get_winner(State) = "None"
    /\ winner = TNone => get_board_terminal_status(board) = TNone

\* C14 witness: a move ended the game with a win and get_winner returns the
\* cached player.
C14_Witness ==
    /\ Called
    /\ \E p \in Players : winner = TWin(p) /\ get_winner(State) = p /\ HasFour(board, p)

\* C15: is_terminal is true iff available_moves is empty; available_moves is
\* empty whenever the board's status is Win or Draw, whatever the free columns
\* and the mover's points; every move was made from a state that was not
\* terminal; and a state whose board is not terminal is terminal only when
\* every column is full and available_moves holds no switch.
C15_TerminalNoMoves ==
    /\ is_terminal(State) <=> (Len(available_moves(State)) = 0)
    /\ StatusByRuns(board) # TNone => (is_terminal(State) /\ available_moves(State) = <<>>)
    /\ Called => (~is_terminal(pre) /\ StatusByRuns(pre.board) = TNone)
    /\ (StatusByRuns(board) = TNone /\ \E x \in Xs : board[x][HEIGHT - 1] = Empty)
          => ~is_terminal(State)
    /\ (StatusByRuns(board) = TNone /\ is_terminal(State)) =>
          /\ \A x \in Xs : board[x][HEIGHT - 1] # Empty
          /\ \A i \in 1 .. Len(available_moves(State)) :
                available_moves(State)[i][1] # "SwitchStone"

\* C15 witness: a move ended the game with a draw while columns are free and
\* the player to move has points; no move is available.
C15_Witness ==
    /\ Called
    /\ winner = TDraw
    /\ \E x \in Xs : board[x][HEIGHT - 1] = Empty
    /\ PointsOf(current_player) > 0
    /\ \E a \in Coords : DifferentPlayers(a, CoordAdd(a, <<1, 0>>))
    /\ is_terminal(State)

-----------------------------------------------------------------------------
(* Properties of the network input *)

\* C16 as claimed: in the input of every state, plane 2 holds the points of
\* the player to move in every cell and plane 3 the points of the opponent,
\* as planes 0 and 1 hold the stones of the player to move and of the opponent.
C16_PointPlanesRelative ==
    \A x \in Xs : \A y \in Ys :
       /\ BoardState_into(State)[1][x][y] = (IF board[x][y] = current_player THEN 1 ELSE 0)
       /\ BoardState_into(State)[2][x][y] =
             (IF board[x][y] = next_player(current_player) THEN 1 ELSE 0)
       /\ BoardState_into(State)[3][x][y] = PointsOf(current_player)
       /\ BoardState_into(State)[4][x][y] = PointsOf(next_player(current_player))

-----------------------------------------------------------------------------
(* Properties of the policy tensor *)

\* moves_to_tensorflow has been called on the moves of the root
RootCalled == policy.panicked \/ policy.written > 0

IsVertical(m) == m[1] = "SwitchStone" /\ m[2][1] = m[3][1]
IsHorizontal(m) == m[1] = "SwitchStone" /\ m[2][2] = m[3][2]

\* the lower left of the two cells of a switch
LowCell(m) == <<min(m[2][1], m[3][1]), min(m[2][2], m[3][2])>>

RECURSIVE sum_entries(_, _)
sum_entries(tensor, S) ==
    IF S = {} THEN f32_zero
    ELSE f32_add(tensor[CHOOSE ix \in S : TRUE],
                 sum_entries(tensor, S \ {CHOOSE ix \in S : TRUE}))

\* C18: when the visits of the moves sum to 0 (an empty list too),
\* moves_to_tensorflow panics and no entry of the tensor has been set; when
\* they sum to T > 0 it does not panic, the entry of each move is its
\* visits / T, and the entries that were set sum to 1.
C18_ZeroVisitsPanic ==
    /\ (policy.panicked \/ (visits # <<>> /\ parent_visits(visits) = 0)) =>
          /\ parent_visits(visits) = 0
          /\ policy.panicked
          /\ policy.written = 0
          /\ policy.tensor = Tensor_new
    /\ (RootCalled /\ parent_visits(visits) > 0) =>
          /\ ~policy.panicked
          /\ policy.written = Len(root_moves)
          /\ \A i \in 1 .. Len(root_moves) :
                policy.tensor[indeces(root_moves[i])] =
                   f32_div(visits[i], parent_visits(visits))
          /\ sum_entries(policy.tensor,
                         {indeces(root_moves[i]) : i \in 1 .. Len(root_moves)}) = <<1, 1>>
          /\ \A ix \in PolicyIndex :
                ix \notin {indeces(root_moves[i]) : i \in 1 .. Len(root_moves)} =>
                   policy.tensor[ix] = f32_zero

\* C18 witness: the root has moves, none of them was visited, and the call
\* panicked.
C18_Witness ==
    /\ policy.panicked
    /\ Len(root_moves) > 1
    /\ Len(visits) = Len(root_moves)
    /\ parent_visits(visits) = 0

-----------------------------------------------------------------------------
(* Properties of the training run *)

\* main has built the TrainingData of the episode
HasData == phase \in {"learn", "learned", "aborted"}

\* the value the game of winner w gives to a state whose mover is player
TargetFor(player, w) ==
    IF w = "None" THEN 0 ELSE IF player = w THEN 1 ELSE -1

\* the examples of the game res in the data d
ExamplesOf(res, d) ==
    /\ Len(d.inputs) = Len(res.histories)
    /\ Len(d.output_policy) = Len(res.histories)
    /\ Len(d.output_value) = Len(res.histories)
    /\ res.histories[1][1] = DefaultState
    /\ res.histories[Len(res.histories)][1] = pre
    /\ \A i \in 1 .. Len(res.histories) :
          /\ ~is_terminal(res.histories[i][1])
          /\ d.inputs[i] = BoardState_into(res.histories[i][1])
          /\ d.output_value[i] = TargetFor(res.histories[i][1].current_player, res.winner)
    /\ \A i \in 1 .. (Len(res.histories) - 1) :
          /\ res.histories[i + 1][1].current_player =
                next_player(res.histories[i][1].current_player)
          /\ res.winner # "None" => d.output_value[i + 1] = 0 - d.output_value[i]
          /\ res.winner = "None" => d.output_value[i + 1] = 0

\* C19: while a game is played, the state pushed last on histories is the
\* non-terminal state the last move was made from; when the game is finished
\* its W recorded plies give W inputs, W policies and W values, input i is
\* the tensor of the i-th recorded state, the first recorded state is the
\* default state, value i is +1 if the mover of the i-th recorded state is
\* the winner of the final state, -1 if the other player is, and 0 if there
\* is no winner; the movers alternate, so the values of a won game alternate
\* in sign.
C19_SelfPlayAggregation ==
    /\ (phase = "play" /\ mov # NoMove) =>
          /\ histories[Len(histories)][1] = pre
          /\ ~is_terminal(pre)
          /\ pre.current_player = next_player(current_player)
    /\ HasData =>
          /\ is_terminal(State)
          /\ game_result.winner = get_winner(State)
          /\ asserts_hold(data)
          /\ ExamplesOf(game_result, data)

\* C19 witness: a game is finished and won by the player who made the last
\* move, two moves or more past the position it was joined in; the last value
\* is +1 and the one before it -1.
C19_Witness ==
    /\ phase = "learn"
    /\ learn_results = <<>>
    /\ game_result.winner = pre.current_player
    /\ Len(data.output_value) = Len(game_result.histories)
    /\ \A cols \in MidGames : Len(data.output_value) > Len(cols) + 1
    /\ data.output_value[Len(data.output_value)] = 1
    /\ data.output_value[Len(data.output_value) - 1] = -1

\* every call of learn of the episode but the last one failed
OnlyLastOk(lr) == \A i \in 1 .. (Len(lr) - 1) : lr[i] = "Err"

AllFailed(lr) == \A i \in 1 .. Len(lr) : lr[i] = "Err"

\* the calls of learn of the episode, by the place main is in
RetryInv ==
    /\ Len(learn_results) <= LearnTries
    /\ OnlyLastOk(learn_results)
    /\ phase = "play" => learn_results = <<>>
    /\ phase = "learn" => (Len(learn_results) < LearnTries /\ AllFailed(learn_results))
    /\ phase = "learned" <=>
          (Len(learn_results) >= 1 /\ learn_results[Len(learn_results)] = "Ok")
    /\ phase = "aborted" <=>
          (Len(learn_results) = LearnTries /\ AllFailed(learn_results))

\* an episode starts after a call of learn that returned Ok and not else; a
\* call of learn is made while main is learning; nothing is done after the
\* abort
RetryStep ==
    /\ phase # "aborted"
    /\ episode' # episode =>
          /\ episode' = episode + 1
          /\ phase = "learned"
          /\ Len(learn_results) >= 1
          /\ learn_results[Len(learn_results)] = "Ok"
          /\ learn_results' = <<>>
          /\ phase' = "play"
    /\ (learn_results' # learn_results /\ learn_results' # <<>>) =>
          /\ phase = "learn"
          /\ Len(learn_results') = Len(learn_results) + 1
          /\ SubSeq(learn_results', 1, Len(learn_results)) = learn_results

\* C20: in an episode learn is called at most LearnTries = 10 times, and at
\* least once before the episode ends: once the data is built a call is made
\* and the calls end with an Ok or with the abort; no call follows a call
\* that returned Ok; the next episode starts only from a call that returned
\* Ok; after 10 failed calls the run is aborted and nothing follows.
C20_TrainingRetry ==
    /\ []RetryInv
    /\ [][RetryStep]_vars
    /\ (phase = "learn") ~> (phase \in {"learned", "aborted"})

\* C20 witness: the first episode was learned after failed calls or at once,
\* and the second one is aborted after 10 failed calls.
C20_Witness ==
    /\ episode = 1
    /\ phase = "aborted"
    /\ Len(learn_results) = LearnTries
    /\ AllFailed(learn_results)

\* C21: whatever save returned, the data is the one built from the game and
\* main is learning, has learned or was aborted by 10 failed calls of learn;
\* after an Err of save a call of learn can be made while main is learning
\* and can return Ok or Err, an abort comes from the calls of learn alone,
\* and the next episode can start once a call of learn returned Ok.
C21_SaveFailureLogged ==
    /\ HasData =>
          /\ save_result \in {"Ok", "Err"}
          /\ data = TrainingData(game_result)
    /\ (save_result = "Err" /\ phase = "learn") => (ENABLED LearnOk /\ ENABLED LearnErr)
    /\ (save_result = "Err" /\ phase = "aborted") =>
          (Len(learn_results) = LearnTries /\ AllFailed(learn_results))
    /\ (save_result = "Err" /\ phase = "learned" /\ episode + 1 < MaxEpisodes) =>
          ENABLED StartEpisode

\* C21 witness: save returned Err, and the episode was learned at the second
\* call of learn from the data of the game.
C21_Witness ==
    /\ save_result = "Err"
    /\ phase = "learned"
    /\ learn_results = <<"Err", "Ok">>
    /\ Len(data.inputs) > 0
    /\ data = TrainingData(game_result)

-----------------------------------------------------------------------------
(* Properties of the parallel self-play *)

Running(ws) == {w \in DOMAIN ws : ws[w].pc = "playing"}

\* while main aggregates, learns or has learned no worker is queued or
\* playing
PhasesApart ==
    /\ DOMAIN workers = Games
    /\ phase \in {"play", "learn", "learning", "learned", "aborted"}
    /\ phase # "play" => \A w \in Games : workers[w].pc = "returned"
    /\ phase = "learning" => Running(workers) = {}

\* main leaves the self-play with every game returned; a worker moves during
\* the self-play alone; the next episode starts from a learned one
PhaseStep ==
    /\ (phase = "play" /\ phase' # "play") =>
          (phase' = "learn" /\ \A w \in Games : workers[w].pc = "returned")
    /\ workers' # workers => (phase = "play" \/ phase' = "play")
    /\ phase' = "learning" => (Running(workers) = {} /\ Running(workers') = {})
    /\ episode' # episode =>
          /\ episode' = episode + 1
          /\ phase = "learned"
          /\ learn_results # <<>>
          /\ learn_results[Len(learn_results)] = "Ok"
          /\ \A w \in Games : workers'[w] = Queued

\* C22: in every interleaving of the workers of an episode, the aggregation
\* starts only when all the games have returned, no call of learn is in
\* progress while a worker is queued or playing, and the workers of the next
\* episode are queued only after a call of learn returned Ok.
C22_PhaseSeparation == []PhasesApart /\ [][PhaseStep]_vars

\* C22 witness: in the second episode learn is being called; the games have
\* returned after different numbers of plies.
C22_Witness ==
    /\ episode = 1
    /\ phase = "learning"
    /\ \A w \in Games : workers[w].pc = "returned"
    /\ \E v, w \in Games : workers[v].plies # workers[w].plies

-----------------------------------------------------------------------------
(* Properties of a drop *)

\* the lowest Empty cell of column col of b
LowestEmpty(b, col) ==
    CHOOSE y \in Ys : b[col][y] = Empty /\ \A z \in 0 .. (y - 1) : b[col][z] # Empty

\* b with the stone of p on the lowest Empty cell of column col and nothing
\* else changed
WithStone(b, p, col) ==
    [x \in Xs |-> [y \in Ys |->
        IF x = col /\ y = LowestEmpty(b, col) THEN Filled(p) ELSE b[x][y]]]

\* after a drop that was made: the top of the column was Empty, and the board
\* the first pass looked at is the board before with the one stone more
DropPlaced ==
    (Called /\ IsDrop /\ panicked = NoMove) =>
       /\ pre.board[mov[3]][HEIGHT - 1] = Empty
       /\ passes[1].start = WithStone(pre.board, mov[2], mov[3])

\* a call is a step of ply: a call that returns is not a DropStone on a column
\* whose top is not Empty, and a call that panics is such a drop and leaves
\* the board, the events and the last returned call as they were
DropStep ==
    ply' = ply + 1 =>
       /\ panicked' = NoMove =>
             \A p \in Players : \A col \in Xs :
                board[col][HEIGHT - 1] # Empty => mov' # DropStone(p, col)
       /\ panicked' # NoMove =>
             /\ panicked'[1] = "DropStone"
             /\ board[panicked'[3]][HEIGHT - 1] # Empty
             /\ board' = board
             /\ results' = results
             /\ mov' = mov

\* C23: Board.make_move with DropStone(player, col) on a column whose top
\* cell is not Empty panics on the assertion: the board is as before and no
\* event is returned; on a column whose top cell is Empty the stone is put on
\* the lowest Empty cell of the column and no other cell is written.
C23_DropPrecondition == []DropPlaced /\ [][DropStep]_vars

\* C23 witness: a drop on a column whose top cell is filled has panicked, and
\* the board holds a column on which a drop passes.
C23_Witness ==
    /\ panicked # NoMove
    /\ board[panicked[3]][HEIGHT - 1] # Empty
    /\ \E col \in BoardDropCols : board[col][HEIGHT - 1] = Empty
    /\ results = <<>>

-----------------------------------------------------------------------------
(* Properties of the columns *)

\* C24: in every state of a game played from the default state with actions
\* of available_moves, in every column the stones are on the cells
\* y = 0 .. k - 1: no Filled cell is above an Empty one.
C24_Gravity == \A x \in Xs : Packed(board[x])

\* a pass of the last call removed a cell under a stone it did not remove
StoneFell ==
    \E i \in 1 .. Len(passes) : \E j \in 1 .. Len(passes[i].total) :
       /\ passes[i].total[j][2] + 1 < HEIGHT
       /\ passes[i].start[passes[i].total[j][1]][passes[i].total[j][2] + 1] # Empty
       /\ CoordAdd(passes[i].total[j], <<0, 1>>) \notin SeqRange(passes[i].total)

\* C24 witness: a switch of two stones made a line whose removal let a stone
\* come down, and every column is packed.
C24_Witness ==
    /\ Called /\ IsSwitch
    /\ get(pre.board, mov[2]) # Empty /\ get(pre.board, mov[3]) # Empty
    /\ StoneFell
    /\ \A x \in Xs : Packed(board[x])
    /\ \E x \in Xs : board[x][0] # Empty

-----------------------------------------------------------------------------
(* Properties of the resolution loop *)

\* the number of stones on b
Stones(b) == Cardinality({c \in Coords : b[c[1]][c[2]] # Empty})

\* C25: the loop of a call of Board.make_move has ended: its last pass is the
\* only one that does not go on; each pass that goes on has removed at least
\* three stones; the passes are at most the stones the board held when the
\* loop started, divided by 3, plus 1; and each pass has appended a finite
\* number of events, at most one per scored cell or the terminal one.
C25_LoopTerminates ==
    Called =>
       /\ Len(passes) >= 1
       /\ ~passes[Len(passes)].again
       /\ \A i \in 1 .. (Len(passes) - 1) :
             /\ passes[i].again
             /\ Len(passes[i].total) >= 3
             /\ Stones(passes[i].after) + 3 <= Stones(passes[i].start)
             /\ passes[i + 1].start = passes[i].after
       /\ Len(passes) <= (Stones(passes[1].start) \div 3) + 1
       /\ Len(results) <= Stones(passes[1].start) + 1

\* C25 witness: a call whose loop made four passes, three of them removing
\* stones.
C25_Witness ==
    /\ Called
    /\ Len(passes) = 4
    /\ \A i \in 1 .. 3 : passes[i].again /\ Len(passes[i].total) >= 3
    /\ ~passes[4].again

-----------------------------------------------------------------------------
(* Properties of a call without events *)

\* the stones of p on board b
StonesOf(b, p) == Cardinality({c \in Coords : b[c[1]][c[2]] = Filled(p)})

\* the cells on which boards a and b differ
Changed(a, b) == {c \in Coords : a[c[1]][c[2]] # b[c[1]][c[2]]}

\* the last call was DropStone(p, col): exactly the lowest Empty cell of the
\* column has changed, from Empty to Filled(p)
DropFrame ==
    \E y \in Ys :
       /\ pre.board[mov[3]][y] = Empty
       /\ \A z \in 0 .. (y - 1) : pre.board[mov[3]][z] # Empty
       /\ board[mov[3]][y] = Filled(mov[2])
       /\ Changed(pre.board, board) = {<<mov[3], y>>}

\* the last call was SwitchStone(a, c): the two cells hold each other's
\* content, no other cell has changed, and each player has as many stones
SwitchFrame ==
    /\ board[mov[2][1]][mov[2][2]] = pre.board[mov[3][1]][mov[3][2]]
    /\ board[mov[3][1]][mov[3][2]] = pre.board[mov[2][1]][mov[2][2]]
    /\ Changed(pre.board, board) \subseteq {mov[2], mov[3]}
    /\ \A p \in Players : StonesOf(board, p) = StonesOf(pre.board, p)

\* C27: when Board.make_move has returned an empty event sequence, a
\* DropStone has changed exactly one cell, the lowest Empty cell of its
\* column, from Empty to the dropped player, and a SwitchStone has exchanged
\* exactly the two addressed cells; every other cell is unchanged, and the
\* SwitchStone has not changed the number of stones of either player.
C27_FrameWithoutEvents ==
    (Called /\ panicked = NoMove /\ results = <<>>) =>
       /\ IsDrop => DropFrame
       /\ IsSwitch => SwitchFrame

\* C27 witness: a SwitchStone without events has exchanged a stone with an
\* Empty cell of a board that holds stones of both players.
C27_Witness ==
    /\ Called /\ IsSwitch
    /\ panicked = NoMove
    /\ results = <<>>
    /\ Changed(pre.board, board) = {mov[2], mov[3]}
    /\ Empty \in {pre.board[mov[2][1]][mov[2][2]], pre.board[mov[3][1]][mov[3][2]]}
    /\ \A p \in Players : StonesOf(board, p) > 0

-----------------------------------------------------------------------------
(* The rollout: the loop while !state.is_terminal() of raw_mcts.rs and of
   play_a_game, from BoardState::default(), with no bound on the plies.  The
   plays are kept in a finite part of the game: stones are dropped in the
   columns below RolloutCols, on columns lower than MaxHeight, and a move that
   takes a counter above MaxPoints is not made. *)

RolloutCols == 2
MaxHeight == 3
MaxPoints == 2

InRollout(st, m) ==
    m[1] = "DropStone" => (m[3] < RolloutCols /\ StonesIn(st.board[m[3]]) < MaxHeight)

PointsWithin(st) ==
    st.player_1_points <= MaxPoints /\ st.player_2_points <= MaxPoints

\* the moves of the list a rollout may make from st
RolloutChoices(st, moves) ==
    {i \in 1 .. Len(moves) :
        /\ InRollout(st, moves[i])
        /\ \E r \in {BoardState_make_move(st, moves[i])} : PointsWithin(r.state)}

\* one turn of the loop: the state is not terminal, and a move of
\* available_moves is made
RolloutMove ==
    /\ \E m \in {available_moves(State)} : \E i \in RolloutChoices(State, m) :
          \E r \in {BoardState_make_move(State, m[i])} : MovedTo(m[i], r)
    /\ UNCHANGED <<ply, rootVars, learnVars, offset_call>>

\* the rollout has a move to make
Movable == RolloutChoices(State, available_moves(State)) # {}

\* the loop goes on as long as the state is not terminal
RolloutSpec == Init /\ [][RolloutMove]_vars /\ WF_vars(RolloutMove)

\* the state is not terminal, and the bounds leave no move to the rollout
OutOfBounds == ~is_terminal(State) /\ ~Movable

\* C26 as claimed: every play from the default state that makes at each ply
\* an action of available_moves reaches a terminal state (or, in the model,
\* the end of the part of the game the rollout is kept in).
C26_GameTerminates == <>(is_terminal(State) \/ OutOfBounds)

-----------------------------------------------------------------------------
(* A long play of the same loop: each player drops on a column of its own,
   Player1 on column 0 and Player2 on column 1.  Every third stone of a player
   completes a vertical run of three, which is scored and removed, so the
   board never fills, no four is made and the counters grow without end; the
   play is followed until a counter is at MaxCounter. *)

MaxCounter == 256

OwnColumn(p) == IF p = Player1 THEN 0 ELSE 1

\* one turn of the loop: the player to move drops on its column
LongPlayMove ==
    /\ player_1_points < MaxCounter
    /\ player_2_points < MaxCounter
    /\ \E m \in {DropStone(current_player, OwnColumn(current_player))} :
          /\ \E i \in 1 .. Len(available_moves(State)) : available_moves(State)[i] = m
          /\ \E r \in {BoardState_make_move(State, m)} : MovedTo(m, r)
    /\ UNCHANGED <<ply, rootVars, learnVars, offset_call>>

LongPlaySpec == Init /\ [][LongPlayMove]_vars

\* C28 as claimed: in the input of every reachable state the point planes
\* hold the point counters themselves in every cell, whatever their value:
\* plane 2 the counter of Player1 and plane 3 the counter of Player2, with no
\* wrap-around above 255.
C28_PointPlanesExact ==
    \A x \in Xs : \A y \in Ys :
       /\ BoardState_into(State)[3][x][y] = player_1_points
       /\ BoardState_into(State)[4][x][y] = player_2_points

-----------------------------------------------------------------------------
(* action.rs: Coordinate::offset, called on small coordinates, offset vectors
   and distances; isize arithmetic is exact on these values. *)

MaxCoord == 2
MaxOffset == 1
MaxDistance == 3

\* Coordinate(self.0 + offset.0 * distance, self.1 + offset.0 * distance)
Coordinate_offset(self, offset, distance) ==
    <<self[1] + offset[1] * distance, self[2] + offset[1] * distance>>

InitOffset == Init

\* a call self.offset(offset, distance), recorded as
\* <<"offset", self, offset, distance, result>>
CallOffset ==
    /\ \E self \in (0 .. MaxCoord) \X (0 .. MaxCoord),
          offset \in ((-MaxOffset) .. MaxOffset) \X ((-MaxOffset) .. MaxOffset),
          distance \in 0 .. MaxDistance :
          offset_call' = <<"offset", self, offset, distance,
                           Coordinate_offset(self, offset, distance)>>
    /\ UNCHANGED <<gameVars, rootVars, learnVars>>

OffsetSpec == InitOffset /\ [][CallOffset]_vars

\* c + d, n times
RECURSIVE AddTimes(_, _, _)
AddTimes(c, d, n) == IF n = 0 THEN c ELSE AddTimes(CoordAdd(c, d), d, n - 1)

\* C29 as claimed: a call (x, y).offset((dx, dy), d) returns
\* (x + dx * d, y + dy * d), which is what adding (dx, dy) d times gives.
C29_OffsetTranslates ==
    offset_call # NoCall =>
       /\ offset_call[5] =
             <<offset_call[2][1] + offset_call[3][1] * offset_call[4],
               offset_call[2][2] + offset_call[3][2] * offset_call[4]>>
       /\ offset_call[5] = AddTimes(offset_call[2], offset_call[3], offset_call[4])

=============================================================================
